---- MODULE Spec2Model ----
(***************************************************************************)
(* pbbridgemapper: affix discovery (affixes.py), region-table synthesis    *)
(* (affixes.py) and the two-pass alignment-role aggregation (main.py,      *)
(* smrtview_output.py), modelled as state machines.                        *)
(*                                                                         *)
(*   Spec     create_affix_region_tables: affix_boundaries over the        *)
(*            primary cmp.h5, then affix_region_table hole by hole.        *)
(*   SpecAgg  create_pbbridgemapper_output: the primary pass, then the     *)
(*            affix pass.                                                  *)
(***************************************************************************)
EXTENDS Integers, Sequences, FiniteSets, TLC

(* ------------------------------ bounds --------------------------------- *)
\* read coordinates range over 0..MaxCoord
MaxCoord == 4
\* at most this many insert regions in the sequencing hole
MaxSubreads == 2
\* at most this many alignments are read from the primary cmp.h5 by
\* affix_boundaries
MaxAlns == 2
\* --min_affix_size ranges over 1..MaxAffixSize (options.py rejects <= 0)
MaxAffixSize == 2
\* read coordinates of the aggregation runs range over 0..AggCoord
AggCoord == 3
\* at most this many alignments in the primary / the affix cmp.h5 of an
\* aggregation run
MaxPrimaryAlns == 2
MaxAffixAlns == 2
MainCoord == 2
MaxReturnCode == 1

(* ------------------------- program constants --------------------------- *)
\* pbcore.io.BasH5IO region types, as affixes.py uses them
ADAPTER_REGION == 0
INSERT_REGION == 1
HQ_REGION == 2
\* smrtview_output.remove_nonunique_alignments
UNIQUE_MAPQV == 254
DEFAULT_MIN_AFFIX_SIZE == 50

(* ------------------------------ inputs --------------------------------- *)
\* Python's None
None == <<>>

movieName == "m1"
\* the holes of the bax.h5 region table; one of them is a sequencing ZMW
Holes == {1, 2}
\* map qualities on both sides of the uniqueness threshold
MapQVs == {UNIQUE_MAPQV - 1, UNIQUE_MAPQV}

Min(a, b) == IF a <= b THEN a ELSE b
Max(a, b) == IF a >= b THEN a ELSE b

\* non-empty half-open ranges (start, end) inside 0..L
Intervals(L) == {r \in (0..L) \X (0..L) : r[1] < r[2]}

\* BasH5IO.intersectRanges(r1, r2): the common part, None when it is empty
intersectRanges(r1, r2) ==
    LET b == Max(r1[1], r2[1])
        e == Min(r1[2], r2[2])
    IN  IF b < e THEN <<b, e>> ELSE None

\* zmw.insertRegions of one hole, in the iteration order of the dictionary
\* built from them: up to MaxSubreads pairwise non-overlapping regions
SubreadLists(L) ==
    {l \in UNION {[1..n -> Intervals(L)] : n \in 0..MaxSubreads} :
        \A i, j \in 1..Len(l) :
            i < j => intersectRanges(l[i], l[j]) = None}

\* the alignments a cmp.h5 can hold
Alignments(L) ==
    [movieName : {movieName}, HoleNumber : Holes,
     rStart : 0..L, rEnd : 0..L, MapQV : MapQVs]

VARIABLES
    pc,                     \* position in the run
    min_affix_size,         \* args.min_affix_size
    subread_dict,           \* key -> list of subread bounds (dict order)
    original_region_table,  \* /PulseData/Regions of the bax.h5
    primary_alns,           \* alignments read so far from the primary cmp.h5
    alignment,              \* the alignment last read from a cmp.h5
    key,                    \* result of the last find_subread_entry call
    overlapping_bounds,     \*   "
    alignment_extents,      \* key -> subread bounds -> None | (start, end)
    affix_bounds,           \* key -> list of affix bounds
    affix_src,              \* history: (key, subread bounds, affix) appended
    hole_pos,               \* affix_region_table: index of the next hole
    output_region_table,    \* affix_region_table: rows emitted so far
    all_subread_dict,       \* key -> subread bounds -> None | <<role dict>>
    existing_alignment,     \* locals of create_pbbridgemapper_output
    existing_aligment,      \*   " (sic, main.py:194)
    affix_alns,             \* alignments read so far from the affix cmp.h5
    split_reads_file,       \* lines written to the split_reads report
    argv_min_affix_size,    \* --min_affix_size on the command line
    pbalign_calls,          \* number of pbalign processes started
    returncode              \* exit status of the last pbalign process

vars == <<pc, min_affix_size, subread_dict, original_region_table,
          primary_alns, alignment, key, overlapping_bounds,
          alignment_extents, affix_bounds, affix_src, hole_pos,
          output_region_table, all_subread_dict, existing_alignment,
          existing_aligment, affix_alns, split_reads_file,
          argv_min_affix_size, pbalign_calls, returncode>>

aggVars == <<all_subread_dict, existing_alignment, existing_aligment,
             affix_alns>>
tableVars == <<min_affix_size, original_region_table, alignment_extents,
               affix_bounds, affix_src, hole_pos, output_region_table>>
mainVars == <<split_reads_file, argv_min_affix_size, pbalign_calls,
              returncode>>

(* ------------------------- affixes.py ---------------------------------- *)
\* the set of elements of a list
Range(l) == {l[i] : i \in 1..Len(l)}

\* find_subread_entry looking the alignment up by its movie alone, so that
\* an alignment of a hole that is not in the index lands in another hole
find_subread_entry_by_movie(cmph5_alignment, sd) ==
    LET ks == {x \in DOMAIN sd : x[1] = cmph5_alignment.movieName}
    IN  IF ks = {}
        THEN <<None, None>>
        ELSE LET k == CHOOSE x \in ks : TRUE
                 l == sd[k]
                 hits == {i \in 1..Len(l) :
                            intersectRanges(<<cmph5_alignment.rStart,
                                              cmph5_alignment.rEnd>>,
                                            l[i]) # None}
             IN  IF hits = {}
                 THEN <<k, None>>
                 ELSE <<k, l[CHOOSE i \in hits : \A j \in hits : i <= j]>>

\* affixes.find_subread_entry: <<key, overlapping_bounds>>
find_subread_entry(cmph5_alignment, sd) ==
    LET k == <<cmph5_alignment.movieName, cmph5_alignment.HoleNumber>>
    IN  IF k \notin DOMAIN sd
        THEN <<None, None>>
        ELSE LET l == sd[k]
                 hits == {i \in 1..Len(l) :
                            intersectRanges(<<cmph5_alignment.rStart,
                                              cmph5_alignment.rEnd>>,
                                            l[i]) # None}
             IN  IF hits = {}
                 THEN <<k, None>>
                 ELSE <<k, l[CHOOSE i \in hits : \A j \in hits : i <= j]>>

\* affixes.subread_dictionary seen as the dictionary it returns: every
\* subread bounds of every key maps to None
subread_dictionary(sd) ==
    [k \in DOMAIN sd |-> [b \in Range(sd[k]) |-> None]]

\* widen_extent with the extent overwritten by the latest alignment instead
\* of widened
widen_extent_overwrite(extents, k, ob, aln) ==
    [extents EXCEPT ![k][ob] = <<aln.rStart, aln.rEnd>>]

\* widen_extent with the extent of the first matched alignment kept as it
\* is
widen_extent_keep_first(extents, k, ob, aln) ==
    LET current_alignment_extent == extents[k][ob]
    IN  [extents EXCEPT ![k][ob] =
            IF current_alignment_extent = None
            THEN <<aln.rStart, aln.rEnd>>
            ELSE current_alignment_extent]

\* affixes.affix_boundaries, the body of the loop over the alignments:
\* the extents after one more alignment matched to the subread bounds ob
\* of key k
widen_extent(extents, k, ob, aln) ==
    LET current_alignment_extent == extents[k][ob]
    IN  [extents EXCEPT ![k][ob] =
            IF current_alignment_extent = None
            THEN <<aln.rStart, aln.rEnd>>
            ELSE <<Min(aln.rStart, current_alignment_extent[1]),
                   Max(aln.rEnd, current_alignment_extent[2])>>]

\* subread_affixes with the prefix measured from the start of the read
\* instead of the start of the subread
subread_affixes_from_zero(subread_bounds, alignment_extent, min_size) ==
    IF alignment_extent = None
    THEN <<>>
    ELSE LET prefix_bounds == <<0, alignment_extent[1]>>
             suffix_bounds == <<alignment_extent[2], subread_bounds[2]>>
         IN  (IF prefix_bounds[2] - prefix_bounds[1] >= min_size
              THEN <<prefix_bounds>> ELSE <<>>)
             \o
             (IF suffix_bounds[2] - suffix_bounds[1] >= min_size
              THEN <<suffix_bounds>> ELSE <<>>)

\* subread_affixes with the suffix kept whenever it is non-empty
subread_affixes_any_suffix(subread_bounds, alignment_extent, min_size) ==
    IF alignment_extent = None
    THEN <<>>
    ELSE LET prefix_bounds == <<subread_bounds[1], alignment_extent[1]>>
             suffix_bounds == <<alignment_extent[2], subread_bounds[2]>>
         IN  (IF prefix_bounds[2] - prefix_bounds[1] >= min_size
              THEN <<prefix_bounds>> ELSE <<>>)
             \o
             (IF suffix_bounds[2] - suffix_bounds[1] > 0
              THEN <<suffix_bounds>> ELSE <<>>)

\* subread_affixes with a subread without alignments reported whole
subread_affixes_unmapped_whole(subread_bounds, alignment_extent, min_size) ==
    IF alignment_extent = None
    THEN (IF subread_bounds[2] - subread_bounds[1] >= min_size
          THEN <<subread_bounds>> ELSE <<>>)
    ELSE LET prefix_bounds == <<subread_bounds[1], alignment_extent[1]>>
             suffix_bounds == <<alignment_extent[2], subread_bounds[2]>>
         IN  (IF prefix_bounds[2] - prefix_bounds[1] >= min_size
              THEN <<prefix_bounds>> ELSE <<>>)
             \o
             (IF suffix_bounds[2] - suffix_bounds[1] >= min_size
              THEN <<suffix_bounds>> ELSE <<>>)

\* affixes.affix_boundaries, one subread: the prefix and the suffix that
\* are at least min_size long, in the order they are appended
subread_affixes(subread_bounds, alignment_extent, min_size) ==
    IF alignment_extent = None
    THEN <<>>
    ELSE LET prefix_bounds == <<subread_bounds[1], alignment_extent[1]>>
             suffix_bounds == <<alignment_extent[2], subread_bounds[2]>>
         IN  (IF prefix_bounds[2] - prefix_bounds[1] >= min_size
              THEN <<prefix_bounds>> ELSE <<>>)
             \o
             (IF suffix_bounds[2] - suffix_bounds[1] >= min_size
              THEN <<suffix_bounds>> ELSE <<>>)

\* the affixes of the subreads l[i..] of one key, in iteration order
RECURSIVE key_affixes(_, _, _, _)
key_affixes(l, i, extents, min_size) ==
    IF i > Len(l)
    THEN <<>>
    ELSE subread_affixes(l[i], extents[l[i]], min_size)
         \o key_affixes(l, i + 1, extents, min_size)

\* affixes.affix_boundaries, the second loop: the returned affix_bounds,
\* which has a key only for the holes with at least one affix
collect_affix_bounds(sd, extents, min_size) ==
    LET ks == {k \in DOMAIN sd :
                 key_affixes(sd[k], 1, extents[k], min_size) # <<>>}
    IN  [k \in ks |-> key_affixes(sd[k], 1, extents[k], min_size)]

\* the (key, subread bounds, affix) triples behind collect_affix_bounds
affix_sources(sd, extents, min_size) ==
    UNION {UNION {{<<k, b, a>> :
                     a \in Range(subread_affixes(b, extents[k][b], min_size))}
                  : b \in Range(sd[k])}
           : k \in DOMAIN sd}

\* list.sort() on a list of tuples: lexicographic order
tuple_le(a, b) == a[1] < b[1] \/ (a[1] = b[1] /\ a[2] <= b[2])

RECURSIVE insert_sorted(_, _)
insert_sorted(l, x) ==
    IF l = <<>> THEN <<x>>
    ELSE IF tuple_le(x, Head(l)) THEN <<x>> \o l
    ELSE <<Head(l)>> \o insert_sorted(Tail(l), x)

RECURSIVE sort(_)
sort(l) == IF l = <<>> THEN <<>> ELSE insert_sorted(sort(Tail(l)), Head(l))

\* numpy.unique of the hole column, as an ascending list
RECURSIVE ascending(_)
ascending(S) ==
    IF S = {} THEN <<>>
    ELSE LET m == CHOOSE x \in S : \A y \in S : x <= y
         IN  <<m>> \o ascending(S \ {m})

hole_numbers(region_table) == ascending({r[1] : r \in Range(region_table)})

\* the rows of one hole, in table order
hole_rows_of(region_table, hole_number) ==
    SelectSeq(region_table, LAMBDA r : r[1] = hole_number)

\* numpy.max of the end column
RECURSIVE max_end(_)
max_end(rows) ==
    IF Len(rows) = 1 THEN rows[1][4]
    ELSE Max(rows[1][4], max_end(Tail(rows)))

\* the first high-quality row of the hole
hq_row_of(rows) == SelectSeq(rows, LAMBDA r : r[2] = HQ_REGION)[1]

\* affix_rows with the adapter row left out when it would be empty
RECURSIVE affix_rows_skip_empty(_, _, _, _)
affix_rows_skip_empty(hole_number, affixes, i, previous_bound) ==
    IF i > Len(affixes)
    THEN <<<<>>, previous_bound>>
    ELSE LET rest == affix_rows_skip_empty(hole_number, affixes, i + 1,
                                           affixes[i][2])
         IN  << (IF previous_bound < affixes[i][1]
                 THEN << <<hole_number, ADAPTER_REGION,
                           previous_bound, affixes[i][1], 900>> >>
                 ELSE <<>>)
                \o << <<hole_number, INSERT_REGION,
                        affixes[i][1], affixes[i][2], -1>> >> \o rest[1],
                rest[2] >>

\* affixes.affix_region_table, the loop over the sorted affixes from
\* affixes[i] on; <<rows, previous_bound>>
RECURSIVE affix_rows(_, _, _, _)
affix_rows(hole_number, affixes, i, previous_bound) ==
    IF i > Len(affixes)
    THEN <<<<>>, previous_bound>>
    ELSE LET rest == affix_rows(hole_number, affixes, i + 1, affixes[i][2])
         IN  << << <<hole_number, ADAPTER_REGION,
                     previous_bound, affixes[i][1], 900>>,
                   <<hole_number, INSERT_REGION,
                     affixes[i][1], affixes[i][2], -1>> >> \o rest[1],
                rest[2] >>

\* hole_output_rows without affixes.sort()
hole_output_rows_unsorted(region_table, movie_name, bounds, hole_number) ==
    LET hole_rows == hole_rows_of(region_table, hole_number)
        zmw_length == max_end(hole_rows)
        hq_row == hq_row_of(hole_rows)
    IN  IF <<movie_name, hole_number>> \notin DOMAIN bounds
        THEN << <<hole_number, HQ_REGION, 0, 0, 0>>,
                <<hole_number, ADAPTER_REGION, 0, zmw_length, 0>> >>
        ELSE LET affixes == bounds[<<movie_name, hole_number>>]
                 walked == affix_rows(hole_number, affixes, 1, 0)
             IN  walked[1]
                 \o << <<hole_number, ADAPTER_REGION,
                         walked[2], zmw_length, 900>> >>
                 \o <<hq_row>>

\* hole_output_rows with the high-quality row emitted before the closing
\* adapter row
hole_output_rows_hq_early(region_table, movie_name, bounds, hole_number) ==
    LET hole_rows == hole_rows_of(region_table, hole_number)
        zmw_length == max_end(hole_rows)
        hq_row == hq_row_of(hole_rows)
    IN  IF <<movie_name, hole_number>> \notin DOMAIN bounds
        THEN << <<hole_number, HQ_REGION, 0, 0, 0>>,
                <<hole_number, ADAPTER_REGION, 0, zmw_length, 0>> >>
        ELSE LET affixes == sort(bounds[<<movie_name, hole_number>>])
                 walked == affix_rows(hole_number, affixes, 1, 0)
             IN  walked[1]
                 \o <<hq_row>>
                 \o << <<hole_number, ADAPTER_REGION,
                         walked[2], zmw_length, 900>> >>

\* hole_output_rows with the input high-quality row copied for a hole
\* without affixes too
hole_output_rows_keep_hq(region_table, movie_name, bounds, hole_number) ==
    LET hole_rows == hole_rows_of(region_table, hole_number)
        zmw_length == max_end(hole_rows)
        hq_row == hq_row_of(hole_rows)
    IN  IF <<movie_name, hole_number>> \notin DOMAIN bounds
        THEN << <<hole_number, HQ_REGION, 0, 0, 0>>,
                <<hole_number, ADAPTER_REGION, 0, zmw_length, 0>>,
                hq_row >>
        ELSE LET affixes == sort(bounds[<<movie_name, hole_number>>])
                 walked == affix_rows(hole_number, affixes, 1, 0)
             IN  walked[1]
                 \o << <<hole_number, ADAPTER_REGION,
                         walked[2], zmw_length, 900>> >>
                 \o <<hq_row>>

\* affixes.affix_region_table, the rows appended for one hole
hole_output_rows(region_table, movie_name, bounds, hole_number) ==
    LET hole_rows == hole_rows_of(region_table, hole_number)
        zmw_length == max_end(hole_rows)
        hq_row == hq_row_of(hole_rows)
    IN  IF <<movie_name, hole_number>> \notin DOMAIN bounds
        THEN << <<hole_number, HQ_REGION, 0, 0, 0>>,
                <<hole_number, ADAPTER_REGION, 0, zmw_length, 0>> >>
        ELSE LET affixes == sort(bounds[<<movie_name, hole_number>>])
                 walked == affix_rows(hole_number, affixes, 1, 0)
             IN  walked[1]
                 \o << <<hole_number, ADAPTER_REGION,
                         walked[2], zmw_length, 900>> >>
                 \o <<hq_row>>

(* ------------------- create_affix_region_tables ------------------------ *)
\* the /PulseData/Regions rows of one hole whose insert regions are l and
\* whose read is len long: the high-quality row, the inserts, and an
\* adapter up to the end of the read; a hole without inserts has an empty
\* high-quality region
RECURSIVE insert_rows(_, _)
insert_rows(hole_number, l) ==
    IF l = <<>> THEN <<>>
    ELSE << <<hole_number, INSERT_REGION, l[1][1], l[1][2], -1>> >>
         \o insert_rows(hole_number, Tail(l))

input_rows(hole_number, l, len) ==
    IF l = <<>>
    THEN << <<hole_number, INSERT_REGION, 0, len, -1>>,
            <<hole_number, HQ_REGION, 0, 0, 0>> >>
    ELSE LET s == sort(l)
         IN  insert_rows(hole_number, s)
             \o (IF len > s[Len(s)][2]
                 THEN << <<hole_number, ADAPTER_REGION,
                           s[Len(s)][2], len, 800>> >>
                 ELSE <<>>)
             \o << <<hole_number, HQ_REGION, s[1][1], s[Len(s)][2], 800>> >>

RECURSIVE input_table(_, _, _, _)
input_table(holes, zmw, l, len) ==
    IF holes = <<>> THEN <<>>
    ELSE (IF Head(holes) = zmw
          THEN input_rows(Head(holes), l, len)
          ELSE input_rows(Head(holes), <<>>, MaxCoord))
         \o input_table(Tail(holes), zmw, l, len)

\* the last end coordinate of a list of subread bounds (0 when empty)
last_end(l) == IF l = <<>> THEN 0 ELSE sort(l)[Len(l)][2]

Unbound == <<"unbound">>

\* the bax.h5 is read: subread_dict and original_region_table are set, the
\* alignment extents are all None (affixes.py:62-66)
Init ==
    \E zmw \in Holes, l \in SubreadLists(MaxCoord),
       len \in 1..MaxCoord, m \in 1..MaxAffixSize :
        /\ len >= last_end(l)
        /\ pc = "affix_boundaries"
        /\ min_affix_size = m
        /\ subread_dict = [k \in {<<movieName, zmw>>} |-> l]
        /\ original_region_table =
               input_table(ascending(Holes), zmw, l, len)
        /\ primary_alns = <<>>
        /\ alignment = None
        /\ key = None
        /\ overlapping_bounds = None
        /\ alignment_extents =
               [k \in {<<movieName, zmw>>} |-> [b \in Range(l) |-> None]]
        /\ affix_bounds = <<>>
        /\ affix_src = {}
        /\ hole_pos = 1
        /\ output_region_table = <<>>
        /\ all_subread_dict = <<>>
        /\ existing_alignment = Unbound
        /\ existing_aligment = Unbound
        /\ affix_alns = <<>>
        /\ split_reads_file = <<>>
        /\ argv_min_affix_size = <<m>>
        /\ pbalign_calls = 0
        /\ returncode = None

\* affixes.affix_boundaries, one iteration of `for alignment in
\* cmph5_reader`; the lookup of a None overlapping_bounds raises KeyError
AffixBoundariesAlignment ==
    /\ pc = "affix_boundaries"
    /\ Len(primary_alns) < MaxAlns
    /\ \E a \in Alignments(MaxCoord) :
        /\ a.rStart < a.rEnd
        /\ a.MapQV = UNIQUE_MAPQV
        /\ LET found == find_subread_entry(a, subread_dict)
           IN  /\ primary_alns' = Append(primary_alns, a)
               /\ alignment' = a
               /\ key' = found[1]
               /\ overlapping_bounds' = found[2]
               /\ IF found[1] = None
                  THEN UNCHANGED <<pc, alignment_extents>>
                  ELSE IF found[2] \notin DOMAIN alignment_extents[found[1]]
                  THEN /\ pc' = "KeyError"
                       /\ UNCHANGED alignment_extents
                  ELSE /\ alignment_extents' =
                              widen_extent(alignment_extents, found[1],
                                           found[2], a)
                       /\ UNCHANGED pc
    /\ UNCHANGED <<min_affix_size, subread_dict, original_region_table,
                   affix_bounds, affix_src, hole_pos, output_region_table>>
    /\ UNCHANGED aggVars
    /\ UNCHANGED mainVars

\* affixes.affix_boundaries, the reader is exhausted: the affixes are
\* collected and returned
AffixBoundariesCollect ==
    /\ pc = "affix_boundaries"
    /\ affix_bounds' =
           collect_affix_bounds(subread_dict, alignment_extents,
                                min_affix_size)
    /\ affix_src' =
           affix_sources(subread_dict, alignment_extents, min_affix_size)
    /\ pc' = "affix_region_table"
    /\ UNCHANGED <<min_affix_size, subread_dict, original_region_table,
                   primary_alns, alignment, key, overlapping_bounds,
                   alignment_extents, hole_pos, output_region_table>>
    /\ UNCHANGED aggVars
    /\ UNCHANGED mainVars

\* affixes.affix_region_table, one iteration of `for hole_number in
\* hole_numbers`; affixes.sort() sorts the list of affix_bounds in place
AffixRegionTableHole ==
    /\ pc = "affix_region_table"
    /\ LET hs == hole_numbers(original_region_table)
           hole_number == hs[hole_pos]
           k == <<movieName, hole_number>>
       IN  /\ hole_pos <= Len(hs)
           /\ output_region_table' =
                  output_region_table
                  \o hole_output_rows(original_region_table, movieName,
                                      affix_bounds, hole_number)
           /\ affix_bounds' =
                  IF k \in DOMAIN affix_bounds
                  THEN [affix_bounds EXCEPT ![k] = sort(@)]
                  ELSE affix_bounds
           /\ hole_pos' = hole_pos + 1
           /\ pc' = IF hole_pos = Len(hs) THEN "done" ELSE pc
    /\ UNCHANGED <<min_affix_size, subread_dict, original_region_table,
                   primary_alns, alignment, key, overlapping_bounds,
                   alignment_extents, affix_src>>
    /\ UNCHANGED aggVars
    /\ UNCHANGED mainVars

Next ==
    \/ AffixBoundariesAlignment
    \/ AffixBoundariesCollect
    \/ AffixRegionTableHole

Spec == Init /\ [][Next]_vars

(* ------------------ create_pbbridgemapper_output ----------------------- *)
\* smrtview_output.alignment_to_output_dict; read_name stands for the string
\* movie/hole/start_end
alignment_to_output_dict(cmph5_alignment, subread_bounds) ==
    [read_name |-> <<cmph5_alignment.movieName, cmph5_alignment.HoleNumber,
                     subread_bounds[1], subread_bounds[2]>>,
     subread_length |-> subread_bounds[2] - subread_bounds[1],
     subread_start |-> cmph5_alignment.rStart - subread_bounds[1],
     subread_end |-> cmph5_alignment.rEnd - subread_bounds[1],
     score |-> -100000,
     map_qv |-> cmph5_alignment.MapQV]

\* dict_set with the dictionary started afresh, as the primary pass does
\* with the role map on a replacement
dict_set_fresh(d, name, value) ==
    [n \in {name} |-> value]

\* a dictionary d with d[name] = value set
dict_set(d, name, value) ==
    [n \in DOMAIN d \cup {name} |-> IF n = name THEN value ELSE d[n]]

\* the alignments the cmp.h5 files of an aggregation run can hold: any
\* extent and map quality in the holes of the index, and one alignment of
\* each hole that is not in the index
AggAlignments(sd) ==
    {a \in Alignments(AggCoord) :
        /\ a.rStart < a.rEnd
        /\ <<a.movieName, a.HoleNumber>> \notin DOMAIN sd =>
               (a.rStart = 0 /\ a.rEnd = 1 /\ a.MapQV = UNIQUE_MAPQV)}

\* the subread index is built (main.py:174-179): every subread of every key
\* maps to None
InitAgg ==
    \E l \in SubreadLists(AggCoord) :
        /\ pc = "primary_pass"
        /\ subread_dict = [k \in {<<movieName, 1>>} |-> l]
        /\ all_subread_dict = subread_dictionary(subread_dict)
        /\ primary_alns = <<>>
        /\ affix_alns = <<>>
        /\ alignment = None
        /\ key = None
        /\ overlapping_bounds = None
        /\ existing_alignment = Unbound
        /\ existing_aligment = Unbound
        /\ min_affix_size = 1
        /\ original_region_table = <<>>
        /\ alignment_extents = <<>>
        /\ affix_bounds = <<>>
        /\ affix_src = {}
        /\ hole_pos = 1
        /\ output_region_table = <<>>
        /\ split_reads_file = <<>>
        /\ argv_min_affix_size = <<1>>
        /\ pbalign_calls = 1
        /\ returncode = <<0>>

\* main.py:196-197, the test that decides whether the primary slot is
\* (re)written; it reads existing_aligment, which only the else branch of
\* main.py:190-194 ever assigns
primary_replaces(aligment, existing, a) ==
    aligment = None \/ a.MapQV > existing[1].map_qv

\* main.py:184-201, one iteration of the loop over the primary alignments
PrimaryPassAlignment ==
    /\ pc = "primary_pass"
    /\ Len(primary_alns) < MaxPrimaryAlns
    /\ \E a \in AggAlignments(subread_dict) :
        LET found == find_subread_entry(a, subread_dict)
            k == found[1]
            ob == found[2]
        IN  /\ primary_alns' = Append(primary_alns, a)
            /\ alignment' = a
            /\ key' = k
            /\ overlapping_bounds' = ob
            /\ IF k = None
               THEN UNCHANGED <<pc, all_subread_dict, existing_alignment,
                                existing_aligment>>
               ELSE IF ob \notin DOMAIN all_subread_dict[k]
               THEN /\ pc' = "KeyError"
                    /\ UNCHANGED <<all_subread_dict, existing_alignment,
                                   existing_aligment>>
               ELSE LET entry == all_subread_dict[k][ob]
                        ea == IF entry # None
                              THEN <<entry[1]["primary"]>>
                              ELSE existing_alignment
                        eg == IF entry # None
                              THEN existing_aligment
                              ELSE None
                    IN  /\ existing_alignment' = ea
                        /\ existing_aligment' = eg
                        /\ IF eg = Unbound
                           THEN /\ pc' = "UnboundLocalError"
                                /\ UNCHANGED all_subread_dict
                           ELSE /\ UNCHANGED pc
                                /\ all_subread_dict' =
                                     IF primary_replaces(eg, ea, a)
                                     THEN [all_subread_dict EXCEPT ![k][ob] =
                                            << [primary |->
                                                 alignment_to_output_dict(a, ob)]
                                            >>]
                                     ELSE all_subread_dict
    /\ UNCHANGED <<subread_dict, affix_alns>>
    /\ UNCHANGED tableVars
    /\ UNCHANGED mainVars

\* main.py:205-209: CmpH5Reader raises EmptyCmpH5Error on an empty file and
\* the handler puts an empty list in the place of the reader
open_affix_cmph5(is_empty) ==
    IF is_empty THEN "affix_pass_empty" ELSE "affix_pass"

\* main.py:203-209, the primary reader is closed and the affix cmp.h5 is
\* opened
PrimaryPassClose ==
    /\ pc = "primary_pass"
    /\ \E is_empty \in BOOLEAN : pc' = open_affix_cmph5(is_empty)
    /\ UNCHANGED <<subread_dict, primary_alns, alignment, key,
                   overlapping_bounds>>
    /\ UNCHANGED aggVars
    /\ UNCHANGED tableVars
    /\ UNCHANGED mainVars

\* affix_type_of with no alignment discarded: what is not a prefix is a
\* suffix
affix_type_of_no_discard(alignment_dict, primary_dict) ==
    LET primary_subread_start == primary_dict.subread_start
    IN  IF alignment_dict.subread_end <= primary_subread_start
        THEN "prefix"
        ELSE "suffix"

\* affix_type_of with an alignment that touches the primary one discarded
affix_type_of_strict(alignment_dict, primary_dict) ==
    LET primary_subread_start == primary_dict.subread_start
        primary_subread_end == primary_dict.subread_end
    IN  IF alignment_dict.subread_end < primary_subread_start
        THEN "prefix"
        ELSE IF alignment_dict.subread_start > primary_subread_end
        THEN "suffix"
        ELSE "None"

\* main.py:227-232: the role of an affix alignment next to the primary
\* one, None when it overlaps it
affix_type_of(alignment_dict, primary_dict) ==
    LET primary_subread_start == primary_dict.subread_start
        primary_subread_end == primary_dict.subread_end
    IN  IF alignment_dict.subread_end <= primary_subread_start
        THEN "prefix"
        ELSE IF alignment_dict.subread_start >= primary_subread_end
        THEN "suffix"
        ELSE "None"

\* affix_replaces with a tie replacing the stored alignment
affix_replaces_on_tie(existing, a) ==
    existing = None \/ a.MapQV >= existing[1].map_qv

\* main.py:240-241, the test that decides whether the role slot is
\* (re)written
affix_replaces(existing, a) ==
    existing = None \/ a.MapQV > existing[1].map_qv

\* main.py:211-243, one iteration of the loop over the affix alignments
AffixPassAlignment ==
    /\ pc = "affix_pass"
    /\ Len(affix_alns) < MaxAffixAlns
    /\ \E a \in AggAlignments(subread_dict) :
        LET found == find_subread_entry(a, subread_dict)
            k == found[1]
            ob == found[2]
        IN  /\ affix_alns' = Append(affix_alns, a)
            /\ alignment' = a
            /\ key' = k
            /\ overlapping_bounds' = ob
            /\ IF k = None
               THEN UNCHANGED <<pc, all_subread_dict, existing_alignment>>
               ELSE IF ob \notin DOMAIN all_subread_dict[k]
               THEN /\ pc' = "KeyError"
                    /\ UNCHANGED <<all_subread_dict, existing_alignment>>
               ELSE IF all_subread_dict[k][ob] = None
               THEN UNCHANGED <<pc, all_subread_dict, existing_alignment>>
               ELSE LET d == all_subread_dict[k][ob][1]
                        alignment_dict == alignment_to_output_dict(a, ob)
                        affix_type == affix_type_of(alignment_dict,
                                                    d["primary"])
                        ea == IF affix_type \in DOMAIN d
                              THEN <<d[affix_type]>>
                              ELSE None
                    IN  IF affix_type = "None"
                        THEN UNCHANGED <<pc, all_subread_dict,
                                         existing_alignment>>
                        ELSE /\ UNCHANGED pc
                             /\ existing_alignment' = ea
                             /\ all_subread_dict' =
                                  IF affix_replaces(ea, a)
                                  THEN [all_subread_dict EXCEPT ![k][ob] =
                                         << dict_set(d, affix_type,
                                                     alignment_dict) >>]
                                  ELSE all_subread_dict
    /\ UNCHANGED <<subread_dict, primary_alns, existing_aligment>>
    /\ UNCHANGED tableVars
    /\ UNCHANGED mainVars

\* main.py:244: the affix reader, or the empty list in its place, is
\* exhausted
AffixPassEnd ==
    /\ pc \in {"affix_pass", "affix_pass_empty"}
    /\ pc' = "output"
    /\ UNCHANGED <<subread_dict, primary_alns, alignment, key,
                   overlapping_bounds>>
    /\ UNCHANGED aggVars
    /\ UNCHANGED tableVars
    /\ UNCHANGED mainVars

\* the (key, bounds) pairs of a subread dictionary in the order of
\* `for key in subread_dict: for bounds in subread_dict[key]`
RECURSIVE entries_of(_, _)
entries_of(keys, sd) ==
    IF keys = {} THEN <<>>
    ELSE LET k == CHOOSE x \in keys : TRUE
         IN  [i \in 1..Len(sd[k]) |-> <<k, sd[k][i]>>]
             \o entries_of(keys \ {k}, sd)

\* the prefix and suffix roles of a role dict that the filter removes
nonunique_roles(affix_dict) ==
    {affix_type \in DOMAIN affix_dict \cap {"prefix", "suffix"} :
        affix_dict[affix_type].map_qv < UNIQUE_MAPQV}

\* a role dict without one of its roles (dict.pop)
dict_pop(d, name) == [n \in DOMAIN d \ {name} |-> d[n]]

\* smrtview_output.remove_nonunique_alignments over the entries e[i..]: the
\* set of <<outcome, dictionary>> it can end with.  Iterating a None entry
\* raises TypeError; a pop changes the size of the dict being iterated, so
\* the next step of that iteration raises RuntimeError; which of two
\* removable roles the iteration meets first is the dict's hash order
RECURSIVE remove_nonunique_alignments(_, _, _)
remove_nonunique_alignments(e, i, d) ==
    IF i > Len(e) THEN {<<"filtered", d>>}
    ELSE LET k == e[i][1]
             bounds == e[i][2]
         IN  IF d[k][bounds] = None
             THEN {<<"TypeError", d>>}
             ELSE IF nonunique_roles(d[k][bounds][1]) = {}
             THEN remove_nonunique_alignments(e, i + 1, d)
             ELSE {<<"RuntimeError",
                     [d EXCEPT ![k][bounds] = << dict_pop(@[1], affix_type) >>]>>
                   : affix_type \in nonunique_roles(d[k][bounds][1])}

\* the columns of one role in a report line; <<>> stands for the run of
\* "_" placeholders of a missing role
role_columns(subread_alns, affix_type) ==
    IF affix_type \in DOMAIN subread_alns
    THEN <<subread_alns[affix_type].subread_start,
           subread_alns[affix_type].subread_end,
           subread_alns[affix_type].score,
           subread_alns[affix_type].map_qv>>
    ELSE <<>>

\* smrtview_output.output_line
output_line(subread_alns) ==
    <<subread_alns["primary"].read_name,
      subread_alns["primary"].subread_length,
      role_columns(subread_alns, "prefix"),
      role_columns(subread_alns, "primary"),
      role_columns(subread_alns, "suffix")>>

\* count_subreads counting the entries that are None as well
count_subreads_all(e, d) ==
    Len(e)

\* smrtview_output.count_subreads
RECURSIVE count_subreads(_, _)
count_subreads(e, d) ==
    IF e = <<>> THEN 0
    ELSE (IF d[Head(e)[1]][Head(e)[2]] # None THEN 1 ELSE 0)
         + count_subreads(Tail(e), d)

\* smrtview_output.write_split_reads_file, the loop over the entries
RECURSIVE output_lines(_, _)
output_lines(e, d) ==
    IF e = <<>> THEN <<>>
    ELSE (IF d[Head(e)[1]][Head(e)[2]] # None
          THEN <<output_line(d[Head(e)[1]][Head(e)[2]][1])>>
          ELSE <<>>)
         \o output_lines(Tail(e), d)

\* smrtview_output.write_split_reads_file: three header lines, then one
\* line per entry that is not None
write_split_reads_file(e, d) ==
    << <<"##pbbridgemapper_version">>,
       <<"##Total Subreads", count_subreads(e, d)>>,
       <<"#columns">> >>
    \o output_lines(e, d)

\* main.py:245-247 in a run with --unique_only: the filter runs over the
\* aggregation result (args.unique_only is read here and nowhere else)
RemoveNonuniqueAlignments ==
    /\ pc = "output"
    /\ \E out \in remove_nonunique_alignments(
                      entries_of(DOMAIN subread_dict, subread_dict), 1,
                      all_subread_dict) :
        /\ pc' = out[1]
        /\ all_subread_dict' = out[2]
    /\ UNCHANGED <<subread_dict, primary_alns, alignment, key,
                   overlapping_bounds, existing_alignment,
                   existing_aligment, affix_alns>>
    /\ UNCHANGED tableVars
    /\ UNCHANGED mainVars

\* main.py:248-249: the report is written, after the filter in a run with
\* --unique_only and straight after the affix pass in a run without
WriteSplitReadsFile ==
    /\ pc \in {"output", "filtered"}
    /\ split_reads_file' =
           write_split_reads_file(
               entries_of(DOMAIN subread_dict, subread_dict),
               all_subread_dict)
    /\ pc' = "written"
    /\ UNCHANGED <<subread_dict, primary_alns, alignment, key,
                   overlapping_bounds, argv_min_affix_size, pbalign_calls,
                   returncode>>
    /\ UNCHANGED aggVars
    /\ UNCHANGED tableVars

NextAgg ==
    \/ PrimaryPassAlignment
    \/ PrimaryPassClose
    \/ AffixPassAlignment
    \/ AffixPassEnd
    \/ RemoveNonuniqueAlignments
    \/ WriteSplitReadsFile

SpecAgg == InitAgg /\ [][NextAgg]_vars

(* ------------------------------- main ---------------------------------- *)
\* the --min_affix_size tokens of a command line: <<>> when the option is
\* not given, else the integer the token spells
ArgvMinAffixSizes == {<<>>} \cup {<<v>> : v \in (0 - 1)..MaxAffixSize}

\* the exit statuses of the pbalign process
ReturnCodes == 0..MaxReturnCode

\* check_gt_zero accepting zero
check_gt_zero_ge(value) ==
    IF value < 0 THEN <<"ArgumentTypeError">> ELSE <<"int_value", value>>

\* options.check_gt_zero: the integer, or the ArgumentTypeError it raises
check_gt_zero(value) ==
    IF value <= 0 THEN <<"ArgumentTypeError">> ELSE <<"int_value", value>>

\* call_pbalign going on whatever the exit status
call_pbalign_raises_never(proc_returncode) == FALSE

\* main.py:159: the test under which call_pbalign raises RuntimeError
call_pbalign_raises(proc_returncode) == proc_returncode # 0

\* the program is started: nothing is parsed, read, written or run
InitMain ==
    \E v \in ArgvMinAffixSizes :
        /\ pc = "parse_options"
        /\ argv_min_affix_size = v
        /\ min_affix_size = Unbound
        /\ subread_dict = <<>>
        /\ original_region_table = <<>>
        /\ primary_alns = <<>>
        /\ alignment = None
        /\ key = None
        /\ overlapping_bounds = None
        /\ alignment_extents = <<>>
        /\ affix_bounds = <<>>
        /\ affix_src = {}
        /\ hole_pos = 1
        /\ output_region_table = <<>>
        /\ all_subread_dict = <<>>
        /\ existing_alignment = Unbound
        /\ existing_aligment = Unbound
        /\ affix_alns = <<>>
        /\ split_reads_file = <<>>
        /\ pbalign_calls = 0
        /\ returncode = None

\* main.py:269-271: parse_args; an --min_affix_size token goes through
\* check_gt_zero and an ArgumentTypeError makes argparse exit, the default
\* is taken as it is
ParseOptions ==
    /\ pc = "parse_options"
    /\ IF argv_min_affix_size = <<>>
       THEN /\ min_affix_size' = DEFAULT_MIN_AFFIX_SIZE
            /\ pc' = "create_affix_region_tables"
       ELSE LET checked == check_gt_zero(argv_min_affix_size[1])
            IN  IF checked[1] = "ArgumentTypeError"
                THEN /\ pc' = "SystemExit"
                     /\ UNCHANGED min_affix_size
                ELSE /\ min_affix_size' = checked[2]
                     /\ pc' = "create_affix_region_tables"
    /\ UNCHANGED <<subread_dict, original_region_table, primary_alns,
                   alignment, key, overlapping_bounds, alignment_extents,
                   affix_bounds, affix_src, hole_pos, output_region_table>>
    /\ UNCHANGED aggVars
    /\ UNCHANGED mainVars

\* main.py:60-84 and affixes.py:62-66: create_affix_region_tables opens
\* the cmp.h5 and reads the bax.h5
CreateAffixRegionTablesOpen ==
    /\ pc = "create_affix_region_tables"
    /\ \E l \in SubreadLists(MainCoord), len \in 1..MainCoord :
        /\ len >= last_end(l)
        /\ subread_dict' = [k \in {<<movieName, 1>>} |-> l]
        /\ original_region_table' =
               input_table(ascending(Holes), 1, l, len)
        /\ alignment_extents' =
               [k \in {<<movieName, 1>>} |-> [b \in Range(l) |-> None]]
    /\ pc' = "affix_boundaries"
    /\ UNCHANGED <<min_affix_size, primary_alns, alignment, key,
                   overlapping_bounds, affix_bounds, affix_src, hole_pos,
                   output_region_table>>
    /\ UNCHANGED aggVars
    /\ UNCHANGED mainVars

\* main.py:277-279, call_pbalign: the process is run once and a non-zero
\* exit status raises RuntimeError, which main does not catch
CallPbalign ==
    /\ pc = "done"
    /\ \E proc_returncode \in ReturnCodes :
        /\ pbalign_calls' = pbalign_calls + 1
        /\ returncode' = <<proc_returncode>>
        /\ pc' = IF call_pbalign_raises(proc_returncode)
                 THEN "RuntimeError"
                 ELSE "create_pbbridgemapper_output"
    /\ UNCHANGED <<subread_dict, primary_alns, alignment, key,
                   overlapping_bounds, split_reads_file,
                   argv_min_affix_size>>
    /\ UNCHANGED aggVars
    /\ UNCHANGED tableVars

\* main.py:290 and main.py:173-183: create_pbbridgemapper_output builds its
\* index from the bax.h5 and opens the primary cmp.h5 again; the locals of
\* create_affix_region_tables are gone
CreatePbbridgemapperOutputOpen ==
    /\ pc = "create_pbbridgemapper_output"
    /\ all_subread_dict' = subread_dictionary(subread_dict)
    /\ primary_alns' = <<>>
    /\ alignment' = None
    /\ key' = None
    /\ overlapping_bounds' = None
    /\ original_region_table' = <<>>
    /\ alignment_extents' = <<>>
    /\ affix_bounds' = <<>>
    /\ affix_src' = {}
    /\ hole_pos' = 1
    /\ output_region_table' = <<>>
    /\ pc' = "primary_pass"
    /\ UNCHANGED <<min_affix_size, subread_dict, existing_alignment,
                   existing_aligment, affix_alns>>
    /\ UNCHANGED mainVars

NextMain ==
    \/ ParseOptions
    \/ CreateAffixRegionTablesOpen
    \/ AffixBoundariesAlignment
    \/ AffixBoundariesCollect
    \/ AffixRegionTableHole
    \/ CallPbalign
    \/ CreatePbbridgemapperOutputOpen
    \/ PrimaryPassAlignment
    \/ PrimaryPassClose
    \/ AffixPassAlignment
    \/ AffixPassEnd
    \/ RemoveNonuniqueAlignments
    \/ WriteSplitReadsFile

SpecMain == InitMain /\ [][NextMain]_vars

(* --------------------- properties of the affixes ----------------------- *)
\* affix_boundaries has returned
Collected == pc \in {"affix_region_table", "done"}

\* the primary alignments the locator matched to subread b of key k
MatchedTo(k, b) ==
    {i \in 1..Len(primary_alns) :
        find_subread_entry(primary_alns[i], subread_dict) = <<k, b>>}

\* every affix in the returned lists was appended for some subread
AffixesHaveSources ==
    \A k \in DOMAIN affix_bounds :
        Range(affix_bounds[k]) = {t[3] : t \in {u \in affix_src : u[1] = k}}

\* C1: once affix_boundaries has consumed the primary alignments, every
\* retained affix of a subread is disjoint from the read extent
\* (rStart, rEnd) of every alignment matched to that subread.
C1_NoSelfOverlap ==
    Collected =>
        /\ AffixesHaveSources
        /\ \A t \in affix_src :
               /\ t[1] \in DOMAIN affix_bounds
               /\ \A i \in MatchedTo(t[1], t[2]) :
                      intersectRanges(t[3], <<primary_alns[i].rStart,
                                              primary_alns[i].rEnd>>) = None

\* a retained affix of a subread to which two alignments with different
\* extents were matched
C1_Witness ==
    /\ pc = "done"
    /\ \E t \in affix_src :
           \E i, j \in MatchedTo(t[1], t[2]) :
               /\ primary_alns[i].rStart < primary_alns[j].rStart
               /\ primary_alns[i].rEnd < primary_alns[j].rEnd

\* C2: every retained affix (a0, a1) of a key is non-empty and lies inside
\* a subread (s0, s1) of that key: s0 <= a0 < a1 <= s1.
C2_Containment ==
    Collected =>
        \A k \in DOMAIN affix_bounds :
            /\ k \in DOMAIN subread_dict
            /\ \A i \in 1..Len(affix_bounds[k]) :
                   LET a == affix_bounds[k][i]
                   IN  \E sb \in Range(subread_dict[k]) :
                           /\ sb[1] <= a[1]
                           /\ a[1] < a[2]
                           /\ a[2] <= sb[2]

\* a key with a prefix and a suffix retained, in a subread that does not
\* start at 0
C2_Witness ==
    /\ pc = "done"
    /\ \E k \in DOMAIN affix_bounds :
           /\ Len(affix_bounds[k]) >= 2
           /\ \A sb \in Range(subread_dict[k]) : sb[1] > 0

\* C3: every retained affix is at least min_affix_size long, and a prefix
\* or suffix candidate shorter than min_affix_size is not retained.
C3_SizeThreshold ==
    Collected =>
        /\ \A k \in DOMAIN affix_bounds :
               \A i \in 1..Len(affix_bounds[k]) :
                   affix_bounds[k][i][2] - affix_bounds[k][i][1]
                       >= min_affix_size
        /\ \A k \in DOMAIN subread_dict :
               \A sb \in Range(subread_dict[k]) :
                   LET e == alignment_extents[k][sb]
                   IN  e # None =>
                         \A c \in {<<sb[1], e[1]>>, <<e[2], sb[2]>>} :
                            c[2] - c[1] < min_affix_size =>
                               <<k, sb, c>> \notin affix_src

\* with min_affix_size 2, a subread whose prefix candidate is 1 long and
\* dropped while its suffix is retained
C3_Witness ==
    /\ pc = "done"
    /\ min_affix_size = 2
    /\ \E k \in DOMAIN affix_bounds :
           \E sb \in Range(subread_dict[k]) :
               LET e == alignment_extents[k][sb]
               IN  /\ e # None
                   /\ e[1] - sb[1] = 1
                   /\ <<e[2], sb[2]>> \in Range(affix_bounds[k])

(* ------------------ properties of the region table --------------------- *)
\* the holes affix_region_table has finished
DoneHoles ==
    IF pc \in {"affix_region_table", "done"}
    THEN {hole_numbers(original_region_table)[i] : i \in 1..(hole_pos - 1)}
    ELSE {}

\* the output rows of hole h that are not high-quality rows
NonHqRows(h) ==
    SelectSeq(hole_rows_of(output_region_table, h),
              LAMBDA r : r[2] # HQ_REGION)

\* <<start, end, kind>> of the non-high-quality rows, ordered by (start, end)
RECURSIVE bounds_of(_)
bounds_of(rows) ==
    IF rows = <<>> THEN <<>>
    ELSE << <<rows[1][3], rows[1][4], rows[1][2]>> >> \o bounds_of(Tail(rows))

SortedBounds(h) == sort(bounds_of(NonHqRows(h)))

\* the read length of hole h: the largest end among its input rows
ReadLength(h) ==
    CHOOSE m \in 0..(MaxCoord + 1) :
        /\ \E r \in Range(original_region_table) : r[1] = h /\ r[4] = m
        /\ \A r \in Range(original_region_table) : r[1] = h => r[4] <= m

\* C4: for every hole the non-high-quality output rows, sorted by start,
\* tile [0, read_length): the first starts at 0, each next one starts where
\* the previous one ends, the last ends at read_length.
C4_TableCoverage ==
    \A h \in DoneHoles :
        LET sb == SortedBounds(h)
        IN  /\ sb # <<>>
            /\ sb[1][1] = 0
            /\ \A i \in 1..(Len(sb) - 1) : sb[i + 1][1] = sb[i][2]
            /\ sb[Len(sb)][2] = ReadLength(h)

\* a hole whose affix list was appended out of order (the suffix of a later
\* subread before the prefix of an earlier one)
C4_Witness ==
    /\ pc = "done"
    /\ \E k \in DOMAIN affix_bounds :
           /\ Len(affix_bounds[k]) = 2
           /\ \E t, u \in affix_src :
                  /\ t[1] = k /\ u[1] = k
                  /\ t[2] # u[2]
                  /\ \E i, j \in 1..Len(subread_dict[k]) :
                         /\ i < j
                         /\ subread_dict[k][i] = t[2]
                         /\ subread_dict[k][j] = u[2]
                         /\ u[3][1] < t[3][1]

\* C5: for every hole the non-high-quality output rows ordered by
\* (start, end) alternate between adapter and insert: no two consecutive
\* rows have the same kind.
C5_Alternation ==
    \A h \in DoneHoles :
        LET sb == SortedBounds(h)
        IN  \A i \in 1..(Len(sb) - 1) : sb[i + 1][3] # sb[i][3]

\* a hole with two adjacent affixes: the suffix of one subread ends where
\* the prefix of the next one starts, with a zero-length adapter row between
C5_Witness ==
    /\ pc = "done"
    /\ \E k \in DOMAIN affix_bounds :
           /\ Len(affix_bounds[k]) = 2
           /\ affix_bounds[k][1][2] = affix_bounds[k][2][1]
           /\ Len(NonHqRows(k[2])) = 5

\* a hole whose first affix starts at 0 and whose last affix ends at
\* read_length
C5_WitnessEnds ==
    /\ pc = "done"
    /\ \E k \in DOMAIN affix_bounds :
           /\ affix_bounds[k][1][1] = 0
           /\ affix_bounds[k][Len(affix_bounds[k])][2] = ReadLength(k[2])

\* C6: for every hole with at least one affix, the last row emitted for the
\* hole is its high-quality row, every column as in the input.
C6_HqPreserved ==
    \A h \in DoneHoles :
        <<movieName, h>> \in DOMAIN affix_bounds =>
            LET out == hole_rows_of(output_region_table, h)
            IN  /\ out # <<>>
                /\ \A r \in Range(original_region_table) :
                       (r[1] = h /\ r[2] = HQ_REGION) => out[Len(out)] = r
                /\ \A i \in 1..(Len(out) - 1) : out[i][2] # HQ_REGION

\* a hole with an affix, followed by the rows of another hole
C6_Witness ==
    /\ pc = "done"
    /\ \E h \in DoneHoles :
           /\ <<movieName, h>> \in DOMAIN affix_bounds
           /\ \E i \in 1..Len(output_region_table) :
                  /\ output_region_table[i][1] = h
                  /\ i < Len(output_region_table)
                  /\ output_region_table[i + 1][1] # h
                  /\ output_region_table[i][4] > 0

\* C7 as stated: for every hole without affixes the output holds a
\* zero-length marker row, an adapter row spanning [0, read_length) and
\* additionally the hole's high-quality row with its start and end as in
\* the input.
C7_Claimed ==
    \A h \in DoneHoles :
        <<movieName, h>> \notin DOMAIN affix_bounds =>
            LET out == hole_rows_of(output_region_table, h)
            IN  /\ \E i \in 1..Len(out) : out[i][3] = 0 /\ out[i][4] = 0
                /\ \E j \in 1..Len(out) :
                       /\ out[j][2] = ADAPTER_REGION
                       /\ out[j][3] = 0 /\ out[j][4] = ReadLength(h)
                /\ \E n \in 1..Len(out) :
                       /\ out[n][2] = HQ_REGION
                       /\ \A r \in Range(original_region_table) :
                              (r[1] = h /\ r[2] = HQ_REGION) =>
                                  (out[n][3] = r[3] /\ out[n][4] = r[4])

\* C7 amended: for every hole without affixes the output holds exactly two
\* rows: a high-quality row with start 0, end 0 and score 0, then an
\* adapter row spanning [0, read_length); the input high-quality row is
\* not copied.
C7_NoAffixRows ==
    \A h \in DoneHoles :
        <<movieName, h>> \notin DOMAIN affix_bounds =>
            hole_rows_of(output_region_table, h) =
                << <<h, HQ_REGION, 0, 0, 0>>,
                   <<h, ADAPTER_REGION, 0, ReadLength(h), 0>> >>

\* a sequencing hole with a non-empty high-quality region, an alignment
\* matched to it and no affix retained
C7_Witness ==
    /\ pc = "done"
    /\ \E k \in DOMAIN subread_dict :
           /\ k \notin DOMAIN affix_bounds
           /\ \E sb \in Range(subread_dict[k]) :
                  alignment_extents[k][sb] # None
           /\ \E r \in Range(original_region_table) :
                  r[1] = k[2] /\ r[2] = HQ_REGION /\ r[4] > 0

(* --------------------- properties of the locator ----------------------- *)
\* C8: whenever find_subread_entry returns a key that is not None, it
\* returns with it subread bounds that are not None and that enclose the
\* alignment: bounds.start <= rStart and rEnd <= bounds.end.
C8_Claimed ==
    key # None =>
        /\ overlapping_bounds # None
        /\ overlapping_bounds[1] <= alignment.rStart
        /\ alignment.rEnd <= overlapping_bounds[2]

(* -------------------- properties of the aggregation -------------------- *)
\* the primary pass is over
PrimaryDone == pc \in {"affix_pass", "affix_pass_empty", "output"}

\* the positions in the cmp.h5 stream alns of the alignments the locator
\* matched to subread b of key k
Matched(alns, k, b) ==
    {i \in 1..Len(alns) : find_subread_entry(alns[i], subread_dict) = <<k, b>>}

\* the first position of I whose alignment has the largest map quality
FirstBest(alns, I) ==
    CHOOSE i \in I :
        /\ \A j \in I : alns[j].MapQV <= alns[i].MapQV
        /\ \A j \in I : alns[j].MapQV = alns[i].MapQV => i <= j

\* C9 as stated: after the primary pass, the primary slot of every subread
\* with a matched alignment holds the record of the first-processed
\* alignment among those of maximal map quality matched to it.
C9_Claimed ==
    PrimaryDone =>
        \A k \in DOMAIN subread_dict :
            \A b \in Range(subread_dict[k]) :
                LET I == Matched(primary_alns, k, b)
                IN  I # {} =>
                      /\ all_subread_dict[k][b] # None
                      /\ all_subread_dict[k][b][1]["primary"] =
                             alignment_to_output_dict(
                                 primary_alns[FirstBest(primary_alns, I)], b)

\* the affix alignments matched to subread b of key k that main.py:227-232
\* classify as role, given the primary slot of the subread
Classified(k, b, role) ==
    {i \in Matched(affix_alns, k, b) :
        /\ all_subread_dict[k][b] # None
        /\ affix_type_of(alignment_to_output_dict(affix_alns[i], b),
                         all_subread_dict[k][b][1]["primary"]) = role}

\* C10: during and after the affix pass, for each subread and each role in
\* {prefix, suffix}, the slot holds the record of the first-processed
\* alignment among those of maximal map quality classified to that role,
\* and is absent when none was; the two roles are decided independently.
C10_AffixBestFirst ==
    pc \in {"affix_pass", "output"} =>
        \A k \in DOMAIN subread_dict :
            \A b \in Range(subread_dict[k]) :
                all_subread_dict[k][b] # None =>
                    \A role \in {"prefix", "suffix"} :
                        LET d == all_subread_dict[k][b][1]
                            I == Classified(k, b, role)
                        IN  IF I = {}
                            THEN role \notin DOMAIN d
                            ELSE /\ role \in DOMAIN d
                                 /\ d[role] =
                                      alignment_to_output_dict(
                                        affix_alns[FirstBest(affix_alns, I)],
                                        b)

\* two alignments of equal map quality and different extents were
\* classified to the same role of a subread
C10_Witness ==
    /\ pc = "output"
    /\ \E k \in DOMAIN subread_dict :
           \E b \in Range(subread_dict[k]) :
               \E role \in {"prefix", "suffix"} :
                   \E i, j \in Classified(k, b, role) :
                       /\ i < j
                       /\ affix_alns[i].MapQV = affix_alns[j].MapQV
                       /\ affix_alns[i].rStart # affix_alns[j].rStart

\* a subread with both a prefix and a suffix stored
C10_WitnessBoth ==
    /\ pc = "output"
    /\ \E k \in DOMAIN subread_dict :
           \E b \in Range(subread_dict[k]) :
               /\ all_subread_dict[k][b] # None
               /\ DOMAIN all_subread_dict[k][b][1] =
                      {"primary", "prefix", "suffix"}

(* ----------------------- properties of the report ---------------------- *)
\* the subreads (key, bounds) that hold a primary role
PrimarySubreads ==
    {e \in {<<k, b>> : k \in DOMAIN all_subread_dict,
                       b \in UNION {DOMAIN all_subread_dict[x] :
                                       x \in DOMAIN all_subread_dict}} :
        /\ e[2] \in DOMAIN all_subread_dict[e[1]]
        /\ all_subread_dict[e[1]][e[2]] # None
        /\ "primary" \in DOMAIN all_subread_dict[e[1]][e[2]][1]}

\* the data lines of the report, after its three header lines
DataLines == SubSeq(split_reads_file, 4, Len(split_reads_file))

\* the read name of subread b of key k
ReadName(k, b) == <<k[1], k[2], b[1], b[2]>>

\* C11: once the report is written, its data lines are one per subread
\* that holds a primary role, their number is the number in the "Total
\* Subreads" header line, and no line belongs to a subread without a
\* primary role
C11_RowsArePrimaries ==
    pc = "written" =>
        /\ Len(DataLines) = Cardinality(PrimarySubreads)
        /\ split_reads_file[2][2] = Cardinality(PrimarySubreads)
        /\ {DataLines[i][1] : i \in 1..Len(DataLines)}
               = {ReadName(e[1], e[2]) : e \in PrimarySubreads}

\* a report written for an index with one subread that holds a primary
\* role and one that holds none although an affix alignment was matched
\* to it
C11_Witness ==
    /\ pc = "written"
    /\ Cardinality(PrimarySubreads) = 1
    /\ \E k \in DOMAIN all_subread_dict :
        \E b \in DOMAIN all_subread_dict[k] :
            /\ all_subread_dict[k][b] = None
            /\ \E i \in 1..Len(affix_alns) :
                find_subread_entry(affix_alns[i], subread_dict) = <<k, b>>

(* ------------------ properties of the uniqueness filter ---------------- *)
\* the step taken by remove_nonunique_alignments, however it ends
FilterStep ==
    /\ pc = "output"
    /\ pc' \in {"filtered", "TypeError", "RuntimeError"}

\* C12: the uniqueness filter leaves no prefix or suffix role of map
\* quality below 254, and leaves every other role, the primary one
\* included, in place and unchanged
C12_Claimed ==
    [][FilterStep =>
        \A k \in DOMAIN all_subread_dict :
            \A b \in DOMAIN all_subread_dict[k] :
                all_subread_dict[k][b] # None =>
                    /\ all_subread_dict'[k][b] # None
                    /\ \A r \in DOMAIN all_subread_dict[k][b][1] :
                        IF r \in nonunique_roles(all_subread_dict[k][b][1])
                        THEN r \notin DOMAIN all_subread_dict'[k][b][1]
                        ELSE /\ r \in DOMAIN all_subread_dict'[k][b][1]
                             /\ all_subread_dict'[k][b][1][r]
                                    = all_subread_dict[k][b][1][r]]_vars

(* ------------- alignments that match no subread of the index ----------- *)
\* one more alignment is read from a cmp.h5 by the extent aggregator or by
\* one of the two aggregation passes; alignment' is that alignment
ReadStep ==
    \/ Len(primary_alns') = Len(primary_alns) + 1
    \/ Len(affix_alns') = Len(affix_alns) + 1

\* the (movie, hole) key of alignment a
KeyOf(a) == <<a.movieName, a.HoleNumber>>

\* the key of a is in the index and the extent of a overlaps none of the
\* subreads of its hole
InGap(a) ==
    /\ KeyOf(a) \in DOMAIN subread_dict
    /\ \A b \in Range(subread_dict[KeyOf(a)]) :
        \/ a.rEnd <= b[1]
        \/ b[2] <= a.rStart

\* C13: an alignment that falls in a gap of its hole is skipped by the
\* extent aggregator and by both aggregation passes: nothing is raised,
\* the envelopes and the role maps stay as they are and the loop goes on
C13_Claimed ==
    [][(ReadStep /\ InGap(alignment')) =>
          /\ pc' = pc
          /\ UNCHANGED <<alignment_extents, all_subread_dict>>]_vars

\* C14: an alignment whose key is not in the index is skipped by the
\* extent aggregator and by both aggregation passes: nothing is raised and
\* no envelope, role map, index key or affix list is created or changed
C14_AbsentKeySkipped ==
    [][(ReadStep /\ KeyOf(alignment') \notin DOMAIN subread_dict) =>
          /\ pc' = pc
          /\ UNCHANGED <<alignment_extents, all_subread_dict, subread_dict,
                         affix_bounds>>]_vars

\* both aggregation passes have read an alignment of a hole that is not in
\* the index, next to a primary alignment that was matched, and the run
\* went on to write the report
C14_Witness ==
    /\ pc = "written"
    /\ \E i \in 1..Len(primary_alns) :
        KeyOf(primary_alns[i]) \notin DOMAIN subread_dict
    /\ \E i \in 1..Len(affix_alns) :
        KeyOf(affix_alns[i]) \notin DOMAIN subread_dict
    /\ PrimarySubreads # {}

\* the extent aggregator has read an alignment of a hole that is not in
\* the index, next to one that was matched, and has returned
C14_WitnessExtents ==
    /\ pc = "done"
    /\ \E i \in 1..Len(primary_alns) :
        KeyOf(primary_alns[i]) \notin DOMAIN subread_dict
    /\ \E k \in DOMAIN alignment_extents :
        \E b \in DOMAIN alignment_extents[k] :
            alignment_extents[k][b] # None

(* ------------------------- properties of main -------------------------- *)
\* nothing has been read from the inputs, written or run
NothingDone ==
    /\ subread_dict = <<>>
    /\ original_region_table = <<>>
    /\ primary_alns = <<>>
    /\ output_region_table = <<>>
    /\ pbalign_calls = 0
    /\ affix_alns = <<>>
    /\ split_reads_file = <<>>

\* C15: a --min_affix_size of zero or less ends the run at option parsing
\* with an error, before anything is read, written or run, and past option
\* parsing min_affix_size is at least 1
C15_NonPositiveRejected ==
    /\ (argv_min_affix_size # <<>> /\ argv_min_affix_size[1] <= 0) =>
           /\ pc \in {"parse_options", "SystemExit"}
           /\ NothingDone
    /\ pc \notin {"parse_options", "SystemExit"} => min_affix_size >= 1

\* a run given --min_affix_size 0 has ended in the error of option parsing
C15_Witness ==
    /\ pc = "SystemExit"
    /\ argv_min_affix_size = <<0>>

\* C16: pbalign is run at most once, and when it exits with a non-zero
\* status the run has ended in RuntimeError with no aggregation started
\* and no report written
C16_PbalignFailureAborts ==
    /\ pbalign_calls <= 1
    /\ (returncode # None /\ returncode[1] # 0) =>
           /\ pc = "RuntimeError"
           /\ pbalign_calls = 1
           /\ all_subread_dict = <<>>
           /\ affix_alns = <<>>
           /\ split_reads_file = <<>>

\* pbalign has exited with status 1 after the region table was written
C16_Witness ==
    /\ returncode = <<1>>
    /\ pbalign_calls = 1
    /\ output_region_table # <<>>

(* ------------------------ an empty affix cmp.h5 ------------------------ *)
\* the states in which a run has ended with an exception
Raised ==
    pc \in {"KeyError", "UnboundLocalError", "TypeError", "RuntimeError",
            "EmptyCmpH5Error", "SystemExit"}

\* C17: when the affix cmp.h5 is empty the aggregation does not fail on
\* it, and the report is written with one line per subread that holds a
\* primary role and no prefix or suffix in any line
C17_Claimed ==
    (affix_alns = <<>>
     /\ pc \in {"affix_pass_empty", "output", "filtered", "written",
                "TypeError", "RuntimeError", "EmptyCmpH5Error"}) =>
        /\ ~Raised
        /\ pc = "written" =>
            /\ Len(DataLines) = Cardinality(PrimarySubreads)
            /\ \A i \in 1..Len(DataLines) :
                /\ DataLines[i][3] = <<>>
                /\ DataLines[i][5] = <<>>

(* --------------------- classification of the affixes ------------------- *)
\* the affix pass reads one more alignment, alignment', and the locator
\* matches it to a subread that holds a primary role
AffixStepOnPrimary ==
    /\ Len(affix_alns') = Len(affix_alns) + 1
    /\ key' # None
    /\ overlapping_bounds' \in DOMAIN all_subread_dict[key']
    /\ all_subread_dict[key'][overlapping_bounds'] # None

\* the role map of the matched subread changes in the slot role at most,
\* a free slot is filled, and a slot that changes holds the record of the
\* alignment just read
StoredAs(role) ==
    LET d == all_subread_dict[key'][overlapping_bounds'][1]
        rec == alignment_to_output_dict(alignment', overlapping_bounds')
    IN  /\ all_subread_dict' \in
               {all_subread_dict,
                [all_subread_dict EXCEPT ![key'][overlapping_bounds'] =
                    << dict_set(d, role, rec) >>]}
        /\ role \notin DOMAIN d =>
               role \in DOMAIN all_subread_dict'[key'][overlapping_bounds'][1]

\* C18: an affix alignment matched to a subread with a primary role is a
\* prefix iff its end, relative to the subread, is at most the start of
\* the primary alignment, else a suffix iff its start is at least the end
\* of the primary alignment, else it is dropped and the role map of the
\* subread stays as it is
C18_Classification ==
    [][AffixStepOnPrimary =>
        LET primary == all_subread_dict[key'][overlapping_bounds'][1]["primary"]
            rel_start == alignment'.rStart - overlapping_bounds'[1]
            rel_end == alignment'.rEnd - overlapping_bounds'[1]
        IN  IF rel_end <= primary.subread_start
            THEN StoredAs("prefix")
            ELSE IF rel_start >= primary.subread_end
            THEN StoredAs("suffix")
            ELSE UNCHANGED all_subread_dict]_vars

\* a subread holds a suffix that starts where its primary alignment ends,
\* and an affix alignment matched to it was dropped for overlapping the
\* primary alignment
C18_Witness ==
    /\ pc = "output"
    /\ \E k \in DOMAIN all_subread_dict :
        \E b \in DOMAIN all_subread_dict[k] :
            /\ all_subread_dict[k][b] # None
            /\ "suffix" \in DOMAIN all_subread_dict[k][b][1]
            /\ all_subread_dict[k][b][1]["suffix"].subread_start
                   = all_subread_dict[k][b][1]["primary"].subread_end
            /\ \E i \in Matched(affix_alns, k, b) :
                /\ affix_alns[i].rEnd - b[1]
                       > all_subread_dict[k][b][1]["primary"].subread_start
                /\ affix_alns[i].rStart - b[1]
                       < all_subread_dict[k][b][1]["primary"].subread_end

(* ---------------------- properties of the envelopes -------------------- *)
\* the extents affix_boundaries builds from the alignments alns[i..] taken
\* in this order, the alignments that match no subread left out
RECURSIVE extents_after(_, _, _)
extents_after(alns, i, extents) ==
    IF i > Len(alns) THEN extents
    ELSE LET found == find_subread_entry(alns[i], subread_dict)
         IN  extents_after(alns, i + 1,
                 IF found[1] # None
                    /\ found[2] \in DOMAIN extents[found[1]]
                 THEN widen_extent(extents, found[1], found[2], alns[i])
                 ELSE extents)

\* the orders in which n alignments can be processed
Orders(n) == {f \in [1..n -> 1..n] : \A i, j \in 1..n : i # j => f[i] # f[j]}

\* C19: the envelope of a subread is None when no alignment was matched to
\* it and else (least rStart, greatest rEnd) of the alignments matched to
\* it, and every processing order of the same alignments gives the same
\* envelopes
C19_Envelope ==
    pc \in {"affix_boundaries", "affix_region_table", "done"} =>
        /\ \A k \in DOMAIN alignment_extents :
            \A b \in DOMAIN alignment_extents[k] :
                alignment_extents[k][b] =
                    IF MatchedTo(k, b) = {}
                    THEN None
                    ELSE <<CHOOSE x \in {primary_alns[i].rStart :
                                             i \in MatchedTo(k, b)} :
                               \A i \in MatchedTo(k, b) :
                                   x <= primary_alns[i].rStart,
                           CHOOSE x \in {primary_alns[i].rEnd :
                                             i \in MatchedTo(k, b)} :
                               \A i \in MatchedTo(k, b) :
                                   x >= primary_alns[i].rEnd>>
        /\ \A f \in Orders(Len(primary_alns)) :
            extents_after([i \in 1..Len(primary_alns) |-> primary_alns[f[i]]],
                          1, subread_dictionary(subread_dict))
                = alignment_extents

\* two alignments were matched to one subread and its envelope, after the
\* aggregator has returned, is the extent of neither
C19_Witness ==
    /\ pc = "affix_region_table"
    /\ \E k \in DOMAIN alignment_extents :
        \E b \in DOMAIN alignment_extents[k] :
            /\ Cardinality(MatchedTo(k, b)) = 2
            /\ \A i \in MatchedTo(k, b) :
                <<primary_alns[i].rStart, primary_alns[i].rEnd>>
                    # alignment_extents[k][b]

\* C20: a subread to which no primary alignment was matched is the source
\* of no affix and is not in the affix list of its hole, and a hole whose
\* subreads are all without alignments has no key in affix_bounds
C20_UnmappedNoAffix ==
    Collected =>
        /\ DOMAIN affix_bounds \subseteq DOMAIN subread_dict
        /\ \A k \in DOMAIN subread_dict :
            /\ \A b \in Range(subread_dict[k]) :
                MatchedTo(k, b) = {} =>
                    /\ \A t \in affix_src : ~(t[1] = k /\ t[2] = b)
                    /\ k \in DOMAIN affix_bounds =>
                           b \notin Range(affix_bounds[k])
            /\ (\A b \in Range(subread_dict[k]) : MatchedTo(k, b) = {}) =>
                   k \notin DOMAIN affix_bounds

\* affix_boundaries has returned affixes for a hole that has, next to the
\* subread they come from, a subread without alignments that is at least
\* min_affix_size long
C20_Witness ==
    /\ Collected
    /\ \E k \in DOMAIN affix_bounds :
        \E b \in Range(subread_dict[k]) :
            /\ MatchedTo(k, b) = {}
            /\ b[2] - b[1] >= min_affix_size

\* affix_boundaries has returned for a hole whose subreads are all without
\* alignments, one of them at least min_affix_size long
C20_WitnessHole ==
    /\ Collected
    /\ primary_alns # <<>>
    /\ \E k \in DOMAIN subread_dict :
        /\ \A b \in Range(subread_dict[k]) : MatchedTo(k, b) = {}
        /\ \E b \in Range(subread_dict[k]) : b[2] - b[1] >= min_affix_size

(* ----------------------- properties of the role maps ------------------- *)
\* the role maps of the index: the (key, bounds) pairs whose entry is a
\* role dict
RoleMaps ==
    {e \in {<<k, b>> : k \in DOMAIN all_subread_dict,
                       b \in UNION {DOMAIN all_subread_dict[x] :
                                       x \in DOMAIN all_subread_dict}} :
        /\ e[2] \in DOMAIN all_subread_dict[e[1]]
        /\ all_subread_dict[e[1]][e[2]] # None}

\* the role dict of subread e
RoleMap(e) == all_subread_dict[e[1]][e[2]][1]

\* C21: in every state of the aggregation, a role map with a prefix or a
\* suffix has a primary role, the prefix ends at or before the start of
\* the primary alignment and the suffix starts at or after its end
C21_RolesOrdered ==
    \A e \in RoleMaps :
        /\ DOMAIN RoleMap(e) \cap {"prefix", "suffix"} # {} =>
               "primary" \in DOMAIN RoleMap(e)
        /\ "prefix" \in DOMAIN RoleMap(e) =>
               RoleMap(e)["prefix"].subread_end
                   <= RoleMap(e)["primary"].subread_start
        /\ "suffix" \in DOMAIN RoleMap(e) =>
               RoleMap(e)["suffix"].subread_start
                   >= RoleMap(e)["primary"].subread_end

\* a role map holds a prefix that ends where the primary alignment starts
\* and a suffix that starts where it ends
C21_Witness ==
    \E e \in RoleMaps :
        /\ DOMAIN RoleMap(e) = {"prefix", "primary", "suffix"}
        /\ RoleMap(e)["prefix"].subread_end
               = RoleMap(e)["primary"].subread_start
        /\ RoleMap(e)["suffix"].subread_start
               = RoleMap(e)["primary"].subread_end

\* C22: the uniqueness filter completes without raising on every
\* aggregation result, so that the report can be written
C22_Claimed ==
    [][FilterStep => pc' = "filtered"]_vars

\* the primary slot of subread b of key k in the index d: None when the
\* subread has no role map or no primary role
primary_slot(d, k, b) ==
    IF d[k][b] = None \/ "primary" \notin DOMAIN d[k][b][1]
    THEN None
    ELSE <<d[k][b][1]["primary"]>>

\* C23: no step of the affix pass creates, replaces or removes a primary
\* slot, and while the primary pass runs no role map holds a prefix or a
\* suffix that a replacement of the primary alignment could discard
C23_PrimaryFrame ==
    [][/\ pc \in {"affix_pass", "affix_pass_empty"} =>
           \A k \in DOMAIN all_subread_dict :
               \A b \in DOMAIN all_subread_dict[k] :
                   /\ k \in DOMAIN all_subread_dict'
                   /\ b \in DOMAIN all_subread_dict'[k]
                   /\ primary_slot(all_subread_dict', k, b)
                          = primary_slot(all_subread_dict, k, b)
       /\ pc' = "primary_pass" =>
           \A k \in DOMAIN all_subread_dict' :
               \A b \in DOMAIN all_subread_dict'[k] :
                   all_subread_dict'[k][b] # None =>
                       DOMAIN all_subread_dict'[k][b][1] = {"primary"}]_vars

\* the affix pass has stored a prefix and then replaced it by one of
\* larger map quality, next to the primary role
C23_Witness ==
    /\ pc = "affix_pass"
    /\ Len(affix_alns) = 2
    /\ \E e \in RoleMaps :
        /\ DOMAIN RoleMap(e) = {"prefix", "primary"}
        /\ Matched(affix_alns, e[1], e[2]) = {1, 2}
        /\ RoleMap(e)["prefix"].map_qv = affix_alns[2].MapQV
        /\ affix_alns[1].MapQV < affix_alns[2].MapQV

\* C24: every record in a role slot has coordinates inside its subread:
\* 0 <= subread_start <= subread_end <= subread_length
C24_Claimed ==
    \A e \in RoleMaps :
        \A r \in DOMAIN RoleMap(e) :
            /\ 0 <= RoleMap(e)[r].subread_start
            /\ RoleMap(e)[r].subread_start <= RoleMap(e)[r].subread_end
            /\ RoleMap(e)[r].subread_end <= RoleMap(e)[r].subread_length

====
